---- MODULE Spec2Model ----
(***************************************************************************)
(* A model of the elysia-oauth2 plugin (src/src/index.ts): the login,      *)
(* authorized (callback) and logout route handlers, the derived            *)
(* authorized() / tokenHeaders() capabilities, and the collaborators they  *)
(* call (StateGuard, TokenStore, the provider's HTTP endpoints, the JWT    *)
(* signer and the browser's cookie jar).                                   *)
(***************************************************************************)
EXTENDS FiniteSets, Integers, Sequences, TLC

(* ---------------------------------------------------------------- bounds *)
\* how many times the clock may advance
MaxTicks == 1
\* how many login requests StateGuard may hand a state token to
MaxLogins == 1
\* how many un-awaited storage.set promises may be in flight at once
MaxPending == 1

(* ------------------------------------------------------------- constants *)
\* token.expires_in = token.expires_in ?? 3600
DefaultExpiresIn == 3600
\* cookie = { ..., maxAge: 3600, ... }
CookieMaxAge == 3600
\* jwt = { ..., exp: '1h' } in seconds
JwtExp == 3600

\* a JSON field that is absent (undefined) in a numeric / string position
NoNum == -1
Undefined == "undefined"

(* ------------------------------------------------------------ input sets *)
\* profile names of the path parameter :name; "gitlab" is not registered, and
\* neither is "constructor", a property every object literal inherits
Registered == {"twitch", "discord"}
Names == Registered \cup {"gitlab", "constructor"}
\* the state values StateGuard hands out, and what a callback may carry
StateTokens == {"s1"}
QueryStates == StateTokens \cup {"forged"}
\* the code query values of a callback; "%" is malformed percent-encoding
Codes == {"a%2Fb", "%"}
AccessTokens == {"X", "Y"}
\* expires_in as sent by the token endpoint / by twitch's validate endpoint
ProviderExpires == {NoNum, 1}
CertExpires == {2}
\* how far one clock step may advance the time (seconds)
TickSteps == {2, DefaultExpiresIn}

(* ------------------------------------------------------------- variables *)
VARIABLES
  profiles,   \* globalProfiles: the registered profiles (fixed after startup)
  now,        \* Date.now() / 1000
  ticks,      \* how often the clock has advanced
  issued,     \* StateGuard: the <<name, state>> pairs generated and not yet used
  logins,     \* how many state tokens StateGuard has generated
  store,      \* TokenStore: name -> the token last written there (at most one)
  pending,    \* storage.set promises that were started and have not settled
  jar,        \* the browser's 'authorize' cookie (at most one)
  cb,         \* the authorized-route request in flight (at most one)
  last,       \* what the request answered by the latest step did and answered
  issuer,     \* the profile whose flow produced the cookie in the jar
  loggedOut   \* "" until a logout is answered and again once a callback succeeds;
              \* "ended" / "idle" after a logout that found a / no cookie in the jar

vars == <<profiles, now, ticks, issued, logins, store, pending, jar, cb, last, issuer, loggedOut>>

(* ----------------------------------------------------- plugin parameters *)
\* the parameters oauth2() is called with when only `profiles`, `state` and
\* `storage` are given; "" and <<>> stand for an option that is not set
host == "localhost:3000"
prefix == ""
login == <<"login", ":name">>
authorized == <<"login", ":name", "authorized">>
logout == <<"logout", ":name">>
redirectTo == <<"user", ":name", "profile">>

\* host.startsWith('localhost') ? 'http' : 'https'
protocol == IF host \in {"localhost", "localhost:3000"} THEN "http" ELSE "https"

\* provider.auth.params / provider.token.params of a profile
NoParams == [k \in {} |-> ""]
BenignAuth == [access_type |-> "offline"]
BenignToken == [audience |-> "api"]
CollidingAuth == [client_id |-> "other-client", state |-> "fixed", prompt |-> "consent"]
CollidingToken == [grant_type |-> "password", code |-> "other-code", client_secret |-> "other-secret"]

Provider(name, authParams, tokenParams) ==
  [ auth |-> [url |-> <<"auth", name>>, params |-> authParams],
    token |-> [url |-> <<"token", name>>, params |-> tokenParams],
    clientId |-> "client", clientSecret |-> "secret" ]

Profile(name, authParams, tokenParams) ==
  [ scope |-> <<"identify">>, provider |-> Provider(name, authParams, tokenParams) ]

DefaultProfiles ==
  [ name \in Registered |->
      IF name = "twitch" THEN Profile(name, NoParams, NoParams)
                         ELSE Profile(name, BenignAuth, BenignToken) ]

CollidingProfiles ==
  [ name \in Registered |->
      IF name = "twitch" THEN Profile(name, NoParams, CollidingToken)
                         ELSE Profile(name, CollidingAuth, BenignToken) ]

(* ------------------------------------------------------------- URL logic *)
\* String.prototype.replace(':name', name): the first occurrence only
RECURSIVE ReplaceFirst(_, _, _)
ReplaceFirst(template, pat, by) ==
  IF template = <<>> THEN <<>>
  ELSE IF Head(template) = pat THEN <<by>> \o Tail(template)
  ELSE <<Head(template)>> \o ReplaceFirst(Tail(template), pat, by)

buildUri(template, name, external) ==
  LET uri == ReplaceFirst(template, ":name", name)
  IN  IF external THEN <<protocol, host, prefix>> \o uri ELSE <<prefix>> \o uri

buildLoginUri(name, external) == buildUri(login, name, external)
buildLogoutUri(name, external) == buildUri(logout, name, external)
buildRedirectUri(name) == buildUri(authorized, name, TRUE)
\* the redirect that goes back to the callback path
buildRedirectToUriCallback(name) == buildUri(authorized, name, TRUE)

buildRedirectToUri(name) == buildUri(redirectTo, name, TRUE)

\* { ...a, ...b }: the keys of b win
Spread(a, b) ==
  [k \in (DOMAIN a) \cup (DOMAIN b) |-> IF k \in DOMAIN b THEN b[k] ELSE a[k]]

\* buildUrl(url, params, scope) of ./utils: the url with the params and the scope
buildUrl(url, params, scope) == [url |-> url, params |-> params, scope |-> scope]

\* decodeURIComponent on the codes a callback may carry; "%" throws URIError
DecodeFails(code) == code = "%"
decodeURIComponent(code) == IF code = "a%2Fb" THEN "a/b" ELSE code

(* ------------------------------------------------- tokens, JWTs, cookies *)
\* TOAuth2AccessToken; a field the JSON does not carry is NoNum / Undefined
Token(at, exp, created, rt, lg) ==
  [ access_token |-> at, expires_in |-> exp, created_at |-> created,
    refresh_token |-> rt, login |-> lg ]

\* no JSON body
NoToken == Token(Undefined, NoNum, NoNum, Undefined, Undefined)

\* the JSON bodies a token endpoint may answer with
TokenJson == { Token(at, exp, NoNum, IF at = "X" THEN "R" ELSE Undefined, Undefined) :
                 at \in AccessTokens, exp \in ProviderExpires }

\* the JSON bodies twitch's validate endpoint may answer with: the fields of
\* its own, and a body that repeats a field of the token
Certificates ==
  { [login |-> "streamer", expires_in |-> exp] : exp \in CertExpires }
  \cup { [login |-> "streamer", expires_in |-> exp, access_token |-> "Z"] : exp \in CertExpires }

NoCertificate == [k \in {} |-> ""]

\* the HTTP answers of a provider endpoint: 2xx JSON, 2xx not JSON, non-2xx
HttpOk == [ok |-> TRUE, json |-> TRUE, status |-> "200", statusText |-> "OK", text |-> "json"]
HttpHtml == [ok |-> TRUE, json |-> FALSE, status |-> "200", statusText |-> "OK", text |-> "html"]
HttpBad == [ok |-> FALSE, json |-> TRUE, status |-> "400", statusText |-> "Bad Request", text |-> "denied"]
HttpAnswers == {HttpOk, HttpHtml, HttpBad}

\* an answer together with its JSON body, when it has one
JsonAnswers ==
  { <<a, json>> \in HttpAnswers \X (TokenJson \cup {NoToken}) :
      (a.ok /\ a.json) <=> (json # NoToken) }

\* jwt.sign(payload) with the plugin's default { exp: '1h' }
JwtSign(payload, t) == [payload |-> payload, exp |-> t + JwtExp, sig |-> TRUE]

\* jwt.verify(cookie): the payload, or false (here: no payload) when the cookie
\* is absent, its signature is wrong or the JWT has expired
JwtVerify(cookies, t) == { c.payload : c \in { d \in cookies : d.sig /\ t < d.exp } }

\* a cookie value that was not produced by jwt.sign
ForgedCookie ==
  [ payload |-> Token("X", DefaultExpiresIn, 0, "R", Undefined),
    exp |-> JwtExp * (MaxTicks + 2), sig |-> FALSE ]

\* what a request may carry as ctx.cookie.authorize: the cookie the client was
\* given, or one it made up
SentCookies(j) == {j, {ForgedCookie}}

\* twitch's validate answers together with their JSON body
CertAnswers ==
  { <<a, c>> \in HttpAnswers \X (Certificates \cup {NoCertificate}) :
      (a.ok /\ a.json) <=> (c # NoCertificate) }

\* isTokenValid(token) of ./utils: now < created_at + expires_in, and a token
\* without expiry information counts as valid
isTokenValid(token, t) ==
  \/ token.expires_in = NoNum
  \/ token.created_at = NoNum
  \/ t < token.created_at + token.expires_in

(* ------------------------------------------------------------ StateGuard *)
\* state.check(req, name, state)
StateCheck(name, st) == <<name, st>> \in issued

(* ------------------------------------------------------- request records *)
Event(e, name, arg) == [e |-> e, name |-> name, arg |-> arg]

NoError == <<>>
NoUri == <<>>

Answer(op, name, status, error, location, redirect, cookie, events, result) ==
  [ op |-> op, name |-> name, status |-> status, error |-> error,
    location |-> location, redirect |-> redirect, cookie |-> cookie,
    events |-> events, result |-> result, args |-> <<>>, sent |-> {}, header |-> <<>> ]

\* a step that answered no request
NoAnswer == Answer("none", "", "", NoError, {}, NoUri, {}, <<>>, "")

\* the answer of the step before has been sent
Ready == last = NoAnswer

\* the property names globalProfiles inherits from Object.prototype
Inherited == {"constructor"}

\* resolveProvider: name in globalProfiles (own and inherited properties)
Resolves(name) == name \in DOMAIN profiles \cup Inherited

\* const { provider } = context; provider.clientId, for an inherited property:
\* provider is undefined and reading clientId throws
NoProvider(op, name, events) ==
  Answer(op, name, "error", <<"TypeError">>, {}, NoUri, {}, events, "")

\* resolveProvider: the 404 response for a name that does not resolve
NotFound(op, name) ==
  Answer(op, name, "404", NoError, {}, NoUri, {}, <<>>, "")

\* the events of one request with this tag
EventsOf(events, e) == { i \in 1..Len(events) : events[i].e = e }

(* ------------------------------------------------------------------ Init *)
InitWith(p) ==
  /\ profiles = p
  /\ now = 0
  /\ ticks = 0
  /\ issued = {}
  /\ logins = 0
  /\ store = [name \in Registered |-> {}]
  /\ pending = {}
  /\ jar = {}
  /\ cb = {}
  /\ last = NoAnswer
  /\ issuer = ""
  /\ loggedOut = ""

Init == InitWith(DefaultProfiles)

(* ----------------------------------------------------------------- clock *)
Tick ==
  /\ Ready
  /\ ticks < MaxTicks
  /\ cb = {}
  /\ \E d \in TickSteps : now' = now + d
  /\ ticks' = ticks + 1
  /\ last' = NoAnswer
  /\ UNCHANGED <<profiles, issued, logins, store, pending, jar, cb, issuer, loggedOut>>

(* ----------------------------------------------------------------- LOGIN *)
\* .get(login, ...)
LoginFor(name) ==
    /\ IF ~Resolves(name)
       THEN /\ last' = NotFound("login", name)
            /\ UNCHANGED <<issued, logins>>
       ELSE IF name \in Inherited
       THEN /\ last' = NoProvider("login", name, <<>>)
            /\ UNCHANGED <<issued, logins>>
       ELSE \E st \in StateTokens :
              /\ <<name, st>> \notin issued
              /\ logins < MaxLogins
              /\ logins' = logins + 1
              /\ issued' = issued \cup {<<name, st>>}
              /\ LET provider == profiles[name].provider
                     authParams == [ client_id |-> provider.clientId,
                                     redirect_uri |-> buildRedirectUri(name),
                                     response_type |-> "code",
                                     response_mode |-> "query",
                                     state |-> st ]
                     authUrl == buildUrl(provider.auth.url,
                                         Spread(authParams, provider.auth.params),
                                         profiles[name].scope)
                 IN  last' = Answer("login", name, "redirect", NoError, {authUrl}, NoUri, {},
                                    <<Event("generate", name, st)>>, "")
    /\ UNCHANGED <<profiles, now, ticks, store, pending, jar, cb, issuer, loggedOut>>

Login == Ready /\ \E name \in Names : LoginFor(name)

(* ---------------------------------------------------------------- LOGOUT *)
\* the logout that hands the cookie it found back
LogoutCookieKept(t) == [value |-> jar, maxAge |-> 0, expires |-> t]

\* req.setCookie('authorize', null, { expires: new Date(Date.now()), maxAge: 0 })
LogoutCookie(t) == [value |-> {}, maxAge |-> 0, expires |-> t]

\* the logout that also deletes the profile's token from storage
LogoutForDeleting(name) ==
    IF ~Resolves(name)
    THEN /\ last' = NotFound("logout", name)
         /\ UNCHANGED <<profiles, now, ticks, issued, logins, store, pending, jar, cb, issuer, loggedOut>>
    ELSE /\ last' = Answer("logout", name, "OK", NoError, {}, buildRedirectToUri(name),
                           {LogoutCookie(now)},
                           <<Event("delete", name, {}),
                             Event("setCookie", name, LogoutCookie(now).value)>>, "")
         /\ store' = [n \in Registered |-> IF n = name THEN {} ELSE store[n]]
         /\ jar' = LogoutCookie(now).value
         /\ issuer' = ""
         /\ loggedOut' = IF jar = {} THEN "idle" ELSE "ended"
         /\ UNCHANGED <<profiles, now, ticks, issued, logins, pending, cb>>

\* .get(logout, ...)
LogoutFor(name) ==
    IF ~Resolves(name)
    THEN /\ last' = NotFound("logout", name)
         /\ UNCHANGED <<profiles, now, ticks, issued, logins, store, pending, jar, cb, issuer, loggedOut>>
    ELSE /\ last' = Answer("logout", name, "OK", NoError, {}, buildRedirectToUri(name),
                           {LogoutCookie(now)},
                           <<Event("setCookie", name, LogoutCookie(now).value)>>, "")
         /\ jar' = LogoutCookie(now).value
         /\ issuer' = ""
         /\ loggedOut' = IF jar = {} THEN "idle" ELSE "ended"
         /\ UNCHANGED <<profiles, now, ticks, issued, logins, store, pending, cb>>

Logout == Ready /\ \E name \in Names : LogoutFor(name)

(* ------------------------------------------------------------ AUTHORIZED *)

\* the handler of one callback request, suspended at an await
Request(name, pc, events, token, payload) ==
  [name |-> name, pc |-> pc, events |-> events, token |-> token, payload |-> payload]

\* the check that forgets the profile the state was generated for
StateRejectedAnyProfile(name, st) == \A n \in Registered : ~StateCheck(n, st)

\* if (!state.check(req.request, name, callbackState)) throw new Error('State mismatch')
StateRejected(name, st) == ~StateCheck(name, st)

\* tokenParams merged with provider.token.params: the body of the token POST
TokenBody(name, code) ==
  LET provider == profiles[name].provider
      tokenParams == [ client_id |-> provider.clientId,
                       client_secret |-> provider.clientSecret,
                       redirect_uri |-> buildRedirectUri(name),
                       grant_type |-> "authorization_code",
                       code |-> decodeURIComponent(code) ]
  IN  Spread(tokenParams, provider.token.params)

\* the test that forgets the content type
ExchangeFailedStatusOnly(r) == ~r.ok

\* if (!response.ok || !Content-Type startsWith 'application/json') throw ...
ExchangeFailed(r) == ~r.ok \/ ~r.json

\* the Error that carries the status alone
HttpErrorStatusOnly(r) == <<r.status>>

\* the Error thrown for a provider answer:
\* `${response.status}: ${response.statusText}: ${await response.text()}`
HttpError(r) == <<r.status, r.statusText, r.text>>

\* token.expires_in = token.expires_in ?? 3600; token.created_at = Date.now() / 1000
WithDefaults(json, t) ==
  [json EXCEPT !.expires_in = IF json.expires_in = NoNum THEN DefaultExpiresIn
                              ELSE json.expires_in,
               !.created_at = t]

\* const auth = {...token, ...certificate}
Certified(token, certificate) == Spread(token, certificate)

\* whether the authorized route runs the validate call for this profile
NeedsValidation(name) == name = "twitch"

\* storage.set(req.request, name, token): called, not awaited
StorageSet(name, token) ==
  /\ Cardinality(pending \cup {[name |-> name, token |-> token]}) <= MaxPending
  /\ pending' = pending \cup {[name |-> name, token |-> token]}

\* the request arrives: resolveProvider, state.check, the token POST is sent
CallbackBeginFor(name, code, st) ==
    LET checked == Event("check", name, [state |-> st, ok |-> StateCheck(name, st)])
    IN
    IF ~Resolves(name)
    THEN /\ last' = NotFound("callback", name)
         /\ UNCHANGED <<profiles, now, ticks, issued, logins, store, pending, jar, cb, issuer, loggedOut>>
    ELSE IF StateRejected(name, st)
    THEN /\ last' = Answer("callback", name, "error", <<"State mismatch">>, {}, NoUri, {},
                           <<checked>>, "")
         /\ UNCHANGED <<profiles, now, ticks, issued, logins, store, pending, jar, cb, issuer, loggedOut>>
    ELSE IF name \in Inherited
    THEN /\ last' = NoProvider("callback", name, <<checked>>)
         /\ UNCHANGED <<profiles, now, ticks, issued, logins, store, pending, jar, cb, issuer, loggedOut>>
    ELSE IF DecodeFails(code)
    THEN /\ issued' = issued \ {<<name, st>>}
         /\ last' = Answer("callback", name, "error", <<"URIError">>, {}, NoUri, {},
                           <<checked>>, "")
         /\ UNCHANGED <<profiles, now, ticks, logins, store, pending, jar, cb, issuer, loggedOut>>
    ELSE /\ cb = {}
         /\ issued' = issued \ {<<name, st>>}
         /\ cb' = { Request(name, "exchange",
                            <<checked, Event("post", name, TokenBody(name, code))>>,
                            NoToken, NoToken) }
         /\ last' = NoAnswer
         /\ UNCHANGED <<profiles, now, ticks, logins, store, pending, jar, issuer, loggedOut>>

CallbackBegin ==
  Ready /\ \E name \in Names, code \in Codes, st \in QueryStates : CallbackBeginFor(name, code, st)

\* the request ends with a thrown Error
Throw(r, error, events) ==
  /\ cb' = {}
  /\ last' = Answer("callback", r.name, "error", error, {}, NoUri, {}, events, "")

\* the token endpoint answers
ExchangeResponse ==
  Ready /\ \E r \in cb, answer \in JsonAnswers :
    /\ r.pc = "exchange"
    /\ LET a == answer[1]
           json == answer[2]
           events == Append(r.events, Event("response", r.name, [answer |-> a, json |-> json]))
           token == WithDefaults(json, now)
       IN  IF ExchangeFailed(a)
           THEN /\ Throw(r, HttpError(a), events)
                /\ UNCHANGED pending
           ELSE IF NeedsValidation(r.name)
           THEN /\ cb' = { Request(r.name, "validate",
                                   Append(events, Event("validate", r.name, token.access_token)),
                                   token, NoToken) }
                /\ last' = NoAnswer
                /\ UNCHANGED pending
           ELSE /\ StorageSet(r.name, token)
                /\ cb' = { Request(r.name, "sign",
                                   Append(events, Event("set", r.name, token)),
                                   token, token) }
                /\ last' = NoAnswer
    /\ UNCHANGED <<profiles, now, ticks, issued, logins, store, jar, issuer, loggedOut>>

\* twitch's validate endpoint answers
ValidateResponse ==
  Ready /\ \E r \in cb, answer \in CertAnswers :
    /\ r.pc = "validate"
    /\ LET a == answer[1]
           certificate == answer[2]
           events == Append(r.events,
                            Event("validated", r.name, [answer |-> a, certificate |-> certificate]))
           auth == Certified(r.token, certificate)
       IN  IF ~a.ok
           THEN /\ Throw(r, HttpError(a), events)
                /\ UNCHANGED pending
           ELSE IF ~a.json
           THEN /\ Throw(r, <<"SyntaxError">>, events)
                /\ UNCHANGED pending
           ELSE /\ StorageSet(r.name, auth)
                /\ cb' = { Request(r.name, "sign",
                                   Append(events, Event("set", r.name, auth)),
                                   r.token, auth) }
                /\ last' = NoAnswer
    /\ UNCHANGED <<profiles, now, ticks, issued, logins, store, jar, issuer, loggedOut>>

\* req.setCookie('authorize', await req.jwt.sign(...), {maxAge: token.expires_in})
SessionCookie(r, t) ==
  [value |-> {JwtSign(r.payload, t)}, maxAge |-> r.token.expires_in, expires |-> NoNum]

\* jwt.sign resolves: the cookie is set and the redirect answered
CallbackEnd ==
  Ready /\ \E r \in cb :
    /\ r.pc = "sign"
    /\ LET cookie == SessionCookie(r, now)
       IN  /\ last' = Answer("callback", r.name, "Found", NoError, {},
                             buildRedirectToUri(r.name), {cookie},
                             Append(r.events, Event("setCookie", r.name, cookie.value)), "")
           /\ jar' = cookie.value
    /\ cb' = {}
    /\ issuer' = r.name
    /\ loggedOut' = ""
    /\ UNCHANGED <<profiles, now, ticks, issued, logins, store, pending>>

(* ------------------------------------------------------------ TokenStore *)
\* a storage.set promise resolves: the token is written
StorageSetDone ==
  Ready /\ \E p \in pending :
    /\ store' = [store EXCEPT ![p.name] = {p.token}]
    /\ pending' = pending \ {p}
    /\ last' = NoAnswer
    /\ UNCHANGED <<profiles, now, ticks, issued, logins, jar, cb, issuer, loggedOut>>

\* a storage.set promise rejects: nothing is written, nobody is told
StorageSetFail ==
  Ready /\ \E p \in pending :
    /\ pending' = pending \ {p}
    /\ last' = NoAnswer
    /\ UNCHANGED <<profiles, now, ticks, issued, logins, store, jar, cb, issuer, loggedOut>>

(* ----------------------------------------------------- SessionCapability *)
\* the argument lists of authorized(...profiles)
ProfileLists ==
  {<<>>} \cup { <<p>> : p \in Registered }
         \cup { pq \in Registered \X Registered : pq[1] # pq[2] }

\* the live check run for every registered profile
LiveCheckedAny(profile) == profile \in Registered

\* whether authorized() runs the live check for this profile
LiveChecked(profile) == profile = "twitch"

\* the body of the refresh POST
RefreshBody(token) ==
  [ client_id |-> "env-client", client_secret |-> "env-secret",
    refresh_token |-> token.refresh_token, grant_type |-> "refresh_token" ]

\* the live-check branch that takes a refused refresh for a success
LiveBranchLenient(token, live, refresh, json) ==
  IF live.ok
  THEN [result |-> "true", events |-> <<Event("live", "twitch", TRUE)>>, refreshed |-> {}]
  ELSE LET events == << Event("live", "twitch", FALSE),
                        Event("refresh", "twitch", RefreshBody(token)),
                        Event("refreshed", "twitch", [answer |-> refresh, json |-> json]) >>
       IN  IF ~refresh.ok
           THEN [result |-> "true", events |-> events, refreshed |-> {}]
           ELSE IF ~refresh.json
           THEN [result |-> "throws", events |-> events, refreshed |-> {}]
           ELSE [result |-> "true",
                 events |-> events \o << Event("set", "twitch", json),
                                         Event("setCookie", "twitch", json) >>,
                 refreshed |-> {json}]

\* what the live-check branch of authorized() does for a verified token:
\* live is the validate answer, refresh the token endpoint's, json its body
LiveBranch(token, live, refresh, json) ==
  IF live.ok
  THEN [result |-> "true", events |-> <<Event("live", "twitch", TRUE)>>, refreshed |-> {}]
  ELSE LET events == << Event("live", "twitch", FALSE),
                        Event("refresh", "twitch", RefreshBody(token)),
                        Event("refreshed", "twitch", [answer |-> refresh, json |-> json]) >>
       IN  IF ~refresh.ok
           THEN [result |-> "false", events |-> events, refreshed |-> {}]
           ELSE IF ~refresh.json
           THEN [result |-> "throws", events |-> events, refreshed |-> {}]
           ELSE [result |-> "true",
                 events |-> events \o << Event("set", "twitch", json),
                                         Event("setCookie", "twitch", json) >>,
                 refreshed |-> {json}]

\* async authorized(...profiles): the loop over the profiles, from the i-th on
RECURSIVE AuthorizedFrom(_, _, _, _, _, _, _)
AuthorizedFrom(list, i, cookies, t, live, refresh, json) ==
  IF i > Len(list)
  THEN [result |-> "true", events |-> <<>>, refreshed |-> {}]
  ELSE LET verified == JwtVerify(cookies, t)
       IN  IF verified = {}
           THEN [result |-> "false", events |-> <<>>, refreshed |-> {}]
           ELSE LET token == CHOOSE v \in verified : TRUE
                IN  IF LiveChecked(list[i])
                    THEN LiveBranch(token, live, refresh, json)
                    ELSE IF ~isTokenValid(token, t)
                    THEN [result |-> "false", events |-> <<>>, refreshed |-> {}]
                    ELSE AuthorizedFrom(list, i + 1, cookies, t, live, refresh, json)

authorizedCall(list, cookies, t, live, refresh, json) ==
  AuthorizedFrom(list, 1, cookies, t, live, refresh, json)

\* ctx.setCookie('authorize', await ctx.jwt.sign(newToken)): the plugin's cookie options
RefreshCookie(token, t) ==
  [value |-> {JwtSign(token, t)}, maxAge |-> CookieMaxAge, expires |-> NoNum]

\* the outcomes authorized(...list) may have, over the answers of the provider
AuthorizedOutcomes(list, cookies, t) ==
  { authorizedCall(list, cookies, t, live, answer[1], answer[2]) :
      live \in HttpAnswers, answer \in JsonAnswers }

\* a request whose handler calls ctx.authorized(...list)
Authorized ==
  Ready /\ \E list \in ProfileLists, cookies \in SentCookies(jar) :
  \E out \in AuthorizedOutcomes(list, cookies, now) :
        /\ last' = [ Answer("authorized", "", "", NoError, {}, NoUri,
                            { RefreshCookie(tok, now) : tok \in out.refreshed },
                            out.events, out.result)
                     EXCEPT !.args = list, !.sent = cookies ]
        /\ IF out.refreshed = {}
           THEN UNCHANGED <<pending, jar, issuer>>
           ELSE \E tok \in out.refreshed :
                  /\ StorageSet("twitch", tok)
                  /\ jar' = RefreshCookie(tok, now).value
                  /\ issuer' = "twitch"
        /\ UNCHANGED <<profiles, now, ticks, issued, logins, store, cb, loggedOut>>

\* the tokenHeaders that reads token.access_token without the `?.`
TokenHeadersThrows ==
  Ready /\ \E profile \in Registered :
    LET found == store[profile]
    IN  /\ last' = IF found = {}
                   THEN Answer("tokenHeaders", profile, "error", <<"TypeError">>, {}, NoUri, {},
                               <<Event("get", profile, found)>>, "")
                   ELSE [ Answer("tokenHeaders", profile, "", NoError, {}, NoUri, {},
                                 <<Event("get", profile, found)>>, "")
                          EXCEPT !.header = <<"Bearer", (CHOOSE tok \in found : TRUE).access_token>> ]
        /\ UNCHANGED <<profiles, now, ticks, issued, logins, store, pending, jar, cb, issuer, loggedOut>>

\* async tokenHeaders(profile, id)
TokenHeaders ==
  Ready /\ \E profile \in Registered :
    LET found == store[profile]
        at == IF found = {} THEN Undefined ELSE (CHOOSE tok \in found : TRUE).access_token
    IN  /\ last' = [ Answer("tokenHeaders", profile, "", NoError, {}, NoUri, {},
                            <<Event("get", profile, found)>>, "")
                     EXCEPT !.header = <<"Bearer", at>> ]
        /\ UNCHANGED <<profiles, now, ticks, issued, logins, store, pending, jar, cb, issuer, loggedOut>>

(* --------------------------------------------------------- specification *)
\* the answer of the latest step leaves the server; the steps below wait for it
Sent ==
  /\ last # NoAnswer
  /\ last' = NoAnswer
  /\ UNCHANGED <<profiles, now, ticks, issued, logins, store, pending, jar, cb, issuer, loggedOut>>

Next ==
  \/ Sent
  \/ Tick
  \/ Login
  \/ CallbackBegin
  \/ ExchangeResponse
  \/ ValidateResponse
  \/ CallbackEnd
  \/ Logout
  \/ StorageSetDone
  \/ StorageSetFail
  \/ Authorized
  \/ TokenHeaders


Spec == Init /\ [][Next]_vars

\* the same plugin, registered with providers whose extra parameters use
\* names of protocol parameters
InitColliding == InitWith(CollidingProfiles)
SpecColliding == InitColliding /\ [][Next]_vars

(* ================================================================ claims *)
\* the event logs of the callback requests: the one in flight and the one
\* answered by the latest step
CallbackLogs ==
  { r.events : r \in cb } \cup { a.events : a \in { b \in {last} : b.op = "callback" } }

HasEvent(events, e) == EventsOf(events, e) # {}

(* C1: a callback on a registered profile whose state value StateGuard.check
   rejects is answered with the 'State mismatch' error; in that request no
   token POST is made, TokenStore.set is not called and no cookie is set. *)
C1_StateMismatchAborts ==
  [][ \A name \in Registered, code \in Codes, st \in QueryStates :
        (CallbackBeginFor(name, code, st) /\ ~StateCheck(name, st))
          => /\ last'.op = "callback"
             /\ last'.status = "error"
             /\ last'.error = <<"State mismatch">>
             /\ ~HasEvent(last'.events, "post")
             /\ ~HasEvent(last'.events, "set")
             /\ last'.cookie = {}
             /\ UNCHANGED <<cb, pending, store, jar>> ]_vars

\* a state was issued for one profile and a callback for it was refused
C1_Witness ==
  /\ last.op = "callback"
  /\ last.error = <<"State mismatch">>
  /\ last.name \in Registered
  /\ issued # {}

(* C2: within one callback the events come in this order only: state.check
   returns true, the token POST is sent and answered 2xx JSON, the token is
   handed to TokenStore.set, the session cookie is signed and set; no later
   event occurs without the earlier ones. *)
Before(events, i, e) == { j \in EventsOf(events, e) : j < i }

InOrder(events) ==
  \A i \in 1..Len(events) :
    /\ events[i].e = "post"
         => \E j \in Before(events, i, "check") : events[j].arg.ok
    /\ events[i].e = "response" => Before(events, i, "post") # {}
    /\ events[i].e = "set"
         => \E j \in Before(events, i, "response") :
              events[j].arg.answer.ok /\ events[j].arg.answer.json
    /\ events[i].e = "setCookie" => Before(events, i, "set") # {}

C2_CallbackOrder == \A events \in CallbackLogs : InOrder(events)

\* a callback went all the way to the cookie
C2_Witness ==
  /\ last.op = "callback"
  /\ last.status = "Found"
  /\ HasEvent(last.events, "setCookie")

(* C3: authorized(p1, ..., pn) is a conjunction: it returns true only if every
   requested profile passes its own check (a verified cookie, and the live
   check or the refresh for a live-checked profile, the local expiry test for
   the others), whatever the order of the profiles. *)
ProfilePasses(profile, a) ==
  LET verified == JwtVerify(a.sent, now)
  IN  /\ verified # {}
      /\ IF LiveChecked(profile)
         THEN \/ \E i \in EventsOf(a.events, "live") : a.events[i].arg
              \/ \E i \in EventsOf(a.events, "refreshed") : a.events[i].arg.answer.ok
         ELSE \A token \in verified : isTokenValid(token, now)

C3_Conjunction ==
  (last.op = "authorized" /\ last.result # "throws")
    => ( last.result = "true"
           <=> \A i \in 1..Len(last.args) : ProfilePasses(last.args[i], last) )

(* C4: when the token endpoint answers the code exchange with a non-2xx status
   or a content type that is not JSON, the callback ends with an error that
   carries status, status text and body; TokenStore.set is not called and no
   cookie is set in that request. The same holds when twitch's validate call
   is answered with a non-2xx status. *)
FailedAnswers(events) ==
  { events[i].arg.answer : i \in { j \in EventsOf(events, "response") :
                                     ~events[j].arg.answer.ok \/ ~events[j].arg.answer.json } }
  \cup
  { events[i].arg.answer : i \in { j \in EventsOf(events, "validated") :
                                     ~events[j].arg.answer.ok } }

FailureAnswered ==
  /\ \A r \in cb : FailedAnswers(r.events) = {}
  /\ last.op = "callback" =>
       \A a \in FailedAnswers(last.events) :
         /\ last.status = "error"
         /\ last.error = <<a.status, a.statusText, a.text>>
         /\ ~HasEvent(last.events, "set")
         /\ last.cookie = {}

C5_ProtocolWins ==
  /\ (last.op = "login" /\ last.status = "redirect") =>
       \A url \in last.location :
         /\ url.params.client_id = profiles[last.name].provider.clientId
         /\ url.params.redirect_uri = buildRedirectUri(last.name)
         /\ url.params.response_type = "code"
         /\ url.params.state = last.events[1].arg
  /\ \A events \in CallbackLogs :
       \A i \in EventsOf(events, "post") :
         LET body == events[i].arg
             name == events[i].name
         IN  /\ body.client_id = profiles[name].provider.clientId
             /\ body.client_secret = profiles[name].provider.clientSecret
             /\ body.redirect_uri = buildRedirectUri(name)
             /\ body.grant_type = "authorization_code"
             /\ body.code \in { decodeURIComponent(code) : code \in Codes }

(* C6: a callback on a registered profile P with a valid state and a 2xx JSON
   token response carrying access_token X calls TokenStore.set exactly once,
   with P and a token whose access_token is X, sets the session cookie and
   redirects to the destination configured for P. *)
Established(a, at) ==
  /\ a.status = "Found"
  /\ Cardinality(EventsOf(a.events, "set")) = 1
  /\ \A j \in EventsOf(a.events, "set") :
       a.events[j].name = a.name /\ a.events[j].arg.access_token = at
  /\ a.cookie # {}
  /\ a.redirect = buildUri(redirectTo, a.name, TRUE)

\* the access tokens of the 2xx JSON token responses of a request
Exchanged(events) ==
  { events[i].arg.json.access_token :
      i \in { j \in EventsOf(events, "response") :
                events[j].arg.answer.ok /\ events[j].arg.answer.json } }

\* the request's validation call, where it has one, was answered 2xx with a
\* JSON body that has no access_token of its own
Validated(a) ==
  NeedsValidation(a.name) =>
    \E i \in EventsOf(a.events, "validated") :
      /\ a.events[i].arg.answer.ok
      /\ a.events[i].arg.answer.json
      /\ "access_token" \notin DOMAIN a.events[i].arg.certificate

\* C6 as stated, for the requests that were answered
C6_EveryExchangeEstablishes ==
  (last.op = "callback")
    => \A at \in Exchanged(last.events) : Established(last, at)

(* C6, amended: the same, for the callbacks whose post-exchange validation
   call, where the profile has one, is answered 2xx with a JSON body that
   carries no access_token of its own. *)
C6_ValidatedExchangeEstablishes ==
  (last.op = "callback" /\ Validated(last))
    => \A at \in Exchanged(last.events) : Established(last, at)

\* a twitch callback whose validation succeeded was answered
C6_Witness ==
  /\ last.op = "callback"
  /\ last.name = "twitch"
  /\ Exchanged(last.events) # {}
  /\ Validated(last)
  /\ last.status = "Found"

(* C7: the token handed to TokenStore.set by a callback has expires_in 3600
   when the token response carries no expires_in, and the response's value
   when it carries one. *)
C7_StoredExpiry ==
  \A events \in CallbackLogs :
    \A i \in EventsOf(events, "set") :
      \A j \in Before(events, i, "response") :
        LET json == events[j].arg.json
        IN  events[i].arg.expires_in =
              IF json.expires_in = NoNum THEN DefaultExpiresIn ELSE json.expires_in

(* C8: a logout for a registered profile clears the session cookie (max-age 0,
   expiry not in the future) and sets the redirect to the configured
   destination, whatever went before; from then on authorized(...) of a
   non-empty list is false until a callback succeeds. *)
LogoutAnswer(name) ==
  /\ jar' = {}
  /\ last'.op = "logout"
  /\ last'.cookie # {}
  /\ \A c \in last'.cookie : c.value = {} /\ c.maxAge = 0 /\ c.expires <= now'
  /\ last'.redirect = buildUri(redirectTo, name, TRUE)

AfterLogout ==
  loggedOut # "" =>
    /\ jar = {}
    /\ (last.op = "authorized" /\ Len(last.args) > 0) => last.result = "false"

C8_LogoutClears ==
  /\ [][ \A name \in Registered : LogoutFor(name) => LogoutAnswer(name) ]_vars
  /\ []AfterLogout

\* a session was ended by a logout and authorized() was asked afterwards
C8_Witness ==
  /\ loggedOut = "ended"
  /\ last.op = "authorized"
  /\ Len(last.args) > 0

(* C9: a login, callback or logout request addressed to profile Q leaves the
   result of authorized(P) unchanged for every other registered profile P. *)
AuthorizedResults(profile) ==
  { out.result : out \in AuthorizedOutcomes(<<profile>>, jar, now) }

C9_ProfilesIndependent ==
  [][ \A Q \in Registered :
        (last'.op \in {"login", "callback", "logout"} /\ last'.name = Q)
          => \A P \in Registered \ {Q} : AuthorizedResults(P)' = AuthorizedResults(P) ]_vars

(* C10: in authorized() for a live-checked profile with a verified cookie, a
   failed live check is followed by exactly one refresh request
   (grant_type=refresh_token); a successful refresh hands the new token to
   TokenStore.set, re-signs the cookie with it and gives true; a refused one
   gives false and changes neither TokenStore nor the cookie. *)
RefreshRule ==
  last.op = "authorized" =>
    LET events == last.events
        failed == { i \in EventsOf(events, "live") : ~events[i].arg }
    IN  /\ Cardinality(EventsOf(events, "refresh")) = (IF failed = {} THEN 0 ELSE 1)
        /\ \A i \in EventsOf(events, "refresh") :
             /\ events[i].arg.grant_type = "refresh_token"
             /\ \A token \in JwtVerify(last.sent, now) :
                  events[i].arg.refresh_token = token.refresh_token
        /\ \A i \in EventsOf(events, "refreshed") :
             LET answer == events[i].arg.answer
                 json == events[i].arg.json
             IN  /\ (answer.ok /\ answer.json) =>
                       /\ last.result = "true"
                       /\ Cardinality(EventsOf(events, "set")) = 1
                       /\ \A j \in EventsOf(events, "set") : events[j].arg = json
                       /\ [name |-> "twitch", token |-> json] \in pending
                       /\ last.cookie # {}
                       /\ \A c \in last.cookie : JwtVerify(c.value, now) = {json}
                       /\ JwtVerify(jar, now) = {json}
                 /\ ~answer.ok =>
                       /\ last.result = "false"
                       /\ ~HasEvent(events, "set")
                       /\ last.cookie = {}

LocalOnly(list) ==
  Len(list) > 0 /\ \A i \in 1..Len(list) : list[i] # "twitch"

Expired(token, t) ==
  /\ token.created_at # NoNum
  /\ token.expires_in # NoNum
  /\ token.created_at + token.expires_in < t

ExpiredAsked(a) ==
  /\ a.op = "authorized"
  /\ LocalOnly(a.args)
  /\ \E token \in JwtVerify(a.sent, now) : Expired(token, now)

C11_ExpiredIsFalse ==
  /\ [](ExpiredAsked(last) =>
          /\ last.result = "false"
          /\ ~HasEvent(last.events, "refresh")
          /\ ~HasEvent(last.events, "set")
          /\ last.cookie = {})
  /\ [][ ExpiredAsked(last)' => UNCHANGED <<store, pending, jar>> ]_vars

\* an expired token that carries a refresh_token was asked about
C11_Witness ==
  /\ ExpiredAsked(last)
  /\ \E token \in JwtVerify(last.sent, now) : token.refresh_token # Undefined

(* C12: whatever the interleaving, the session cookie for a token is issued
   only after that token's TokenStore.set has completed: no state has the
   cookie of a token whose write is still in flight or has failed. *)
C12_CookieAfterStore ==
  \A c \in jar :
    /\ \A p \in pending : p.token # c.payload
    /\ issuer \in Registered => c.payload \in store[issuer]

(* C13: for a profile name that is not registered the login, callback and
   logout endpoints answer 404 and do nothing else: no StateGuard.generate or
   check, no token POST, TokenStore untouched, no cookie set or cleared; for
   a registered name the endpoint goes on with that name's profile. *)
Addressed(name) ==
  \/ LoginFor(name)
  \/ LogoutFor(name)
  \/ \E code \in Codes, st \in QueryStates : CallbackBeginFor(name, code, st)

Proceeds(name) ==
  /\ last'.status # "404"
  /\ last'.op = "login" =>
       /\ last'.status = "redirect"
       /\ \A url \in last'.location : url.url = profiles[name].provider.auth.url
       /\ \E i \in EventsOf(last'.events, "generate") : last'.events[i].name = name
  /\ last'.op = "logout" => last'.status = "OK"
  /\ last'.op \in {"login", "logout", "callback"} => last'.name = name
  /\ cb' # cb => \A r \in cb' : r.name = name

C13_UnknownProfile ==
  [][ /\ \A name \in Names \ Registered :
           Addressed(name) =>
             /\ last'.status = "404"
             /\ last'.events = <<>>
             /\ last'.cookie = {}
             /\ last'.location = {}
             /\ last'.redirect = NoUri
             /\ UNCHANGED <<issued, logins, cb, store, pending, jar>>
      /\ \A name \in Registered : Addressed(name) => Proceeds(name) ]_vars

(* C14: in every successful callback the max-age of the session cookie equals
   the expires_in of the token that is signed into the cookie and handed to
   TokenStore.set, also when the validation answer was merged into it. *)
C14_MaxAgeIsExpiresIn ==
  (last.op = "callback" /\ last.status = "Found") =>
    \A c \in last.cookie :
      /\ \A signed \in c.value : c.maxAge = signed.payload.expires_in
      /\ \A i \in EventsOf(last.events, "set") : c.maxAge = last.events[i].arg.expires_in

(* C15: tokenHeaders(profile, id) always answers { Authorization: 'Bearer
   <token>' }: with the stored token's access_token, and with an undefined
   token, not a failure, when TokenStore.get finds none; it only reads
   TokenStore and changes neither TokenStore nor the session cookie. *)
HeaderAnswered ==
  last.op = "tokenHeaders" =>
    /\ last.error = NoError
    /\ Len(last.header) = 2
    /\ last.header[1] = "Bearer"
    /\ store[last.name] = {} => last.header[2] = Undefined
    /\ \A token \in store[last.name] : last.header[2] = token.access_token
    /\ \A i \in 1..Len(last.events) : last.events[i].e = "get"
    /\ last.cookie = {}

C15_TokenHeaders ==
  /\ []HeaderAnswered
  /\ [][ last'.op = "tokenHeaders" => UNCHANGED <<store, pending, jar>> ]_vars

\* the headers were asked for a profile that has no token in TokenStore
\* while another profile has one
C15_Witness ==
  /\ last.op = "tokenHeaders"
  /\ store[last.name] = {}
  /\ \E name \in Registered : store[name] # {}

(* C16: with no redirectTo option configured, the redirect set by a successful
   callback and by a logout goes to the path "/" of the host. *)
RootUri == <<protocol, host, prefix>>

C16_RedirectsToRoot ==
  (last.op \in {"callback", "logout"} /\ last.status \in {"Found", "OK"})
    => last.redirect = RootUri

(* C17: a login or a logout request leaves TokenStore unchanged: it calls
   none of TokenStore.set, get and delete, so a token stored by an earlier
   callback is still there after any number of logouts. *)
StorageCalls(events) ==
  { i \in 1..Len(events) : events[i].e \in {"set", "get", "delete"} }

Dated(token) == token.created_at # NoNum /\ token.expires_in # NoNum

C18_TokensDated ==
  /\ \A p \in pending : Dated(p.token)
  /\ \A name \in Registered : \A token \in store[name] : Dated(token)
  /\ \A c \in jar : Dated(c.payload)

(* C19: authorized(...) never returns true on a request whose session cookie
   is absent or does not verify, whatever the argument list, the empty one
   included. *)
C19_NoCookieNoTrue ==
  (last.op = "authorized" /\ JwtVerify(last.sent, now) = {})
    => last.result # "true"

(* C20: authorized(P) returns true only if the session cookie held was issued
   by a successful callback, or a refresh, for the same profile P: a session
   established through another profile alone never makes it true. *)
C20_OwnSessionOnly ==
  (last.op = "authorized" /\ last.result = "true" /\ last.sent = jar)
    => \A i \in 1..Len(last.args) : last.args[i] = issuer

====
